---- MODULE Spec2Model ----
(***************************************************************************)
(* Drink_Predictor: the flow-based consumption simulation                  *)
(* (src/simulation.py) and the Streamlit script that calls it (src/app.py).*)
(*                                                                         *)
(* Numbers.  The program computes in float64.  The model computes in exact *)
(* rationals <<n, d>> kept in lowest terms with d > 0, so that equality of *)
(* two quantities is equality of the pairs.  The one transcendental step,  *)
(* np.cos inside seasonal_factor, is computed in fixed point (hundredths)  *)
(* by Bhaskara's rational approximation of the cosine.                     *)
(***************************************************************************)
EXTENDS Integers, Sequences, FiniteSets, TLC

(***************************************************************************)
(* Bounds of the model.                                                    *)
(***************************************************************************)
MaxYear == 2025
YearSpan == 1
MaxCapacity == 10

Years == (MaxYear - YearSpan)..MaxYear
Capacities == {0, MaxCapacity}

\* Python's None, and a local that is not bound yet.
None == << >>
\* No exception raised.
NoError == "none"

(***************************************************************************)
(* Exact rational arithmetic standing in for float arithmetic.             *)
(***************************************************************************)
Abs(n) == IF n < 0 THEN -n ELSE n

RECURSIVE GCD(_, _)
GCD(a, b) == IF b = 0 THEN a ELSE GCD(b, a % b)

Rat(n, d) ==
    LET g == GCD(Abs(n), d) IN
    IF n = 0 THEN <<0, 1>> ELSE <<n \div g, d \div g>>

Zero == <<0, 1>>
One == <<1, 1>>
RInt(n) == <<n, 1>>

RMul(x, y) ==
    LET g1 == GCD(Abs(x[1]), y[2])
        g2 == GCD(Abs(y[1]), x[2])
    IN  IF x[1] = 0 \/ y[1] = 0 THEN Zero
        ELSE <<(x[1] \div g1) * (y[1] \div g2), (x[2] \div g2) * (y[2] \div g1)>>

RAdd(x, y) ==
    LET g == GCD(x[2], y[2])
    IN  Rat(x[1] * (y[2] \div g) + y[1] * (x[2] \div g), x[2] * (y[2] \div g))

RNeg(x) == <<-x[1], x[2]>>
RSub(x, y) == RAdd(x, RNeg(y))
RDiv(x, y) ==
    IF y[1] > 0 THEN RMul(x, <<y[2], y[1]>>) ELSE RMul(x, <<-y[2], -y[1]>>)
RGt(x, y) == RSub(x, y)[1] > 0

(***************************************************************************)
(* The proleptic Gregorian calendar of datetime / pandas.Timestamp.        *)
(* A date is <<year, month, day>>.                                         *)
(***************************************************************************)
IsLeap(y) == y % 4 = 0 /\ (y % 100 # 0 \/ y % 400 = 0)

DaysInMonth(y, m) ==
    IF m = 2 THEN (IF IsLeap(y) THEN 29 ELSE 28)
    ELSE IF m \in {4, 6, 9, 11} THEN 30 ELSE 31

DaysBeforeYear(y) ==
    LET p == y - 1 IN p * 365 + p \div 4 - p \div 100 + p \div 400

RECURSIVE DaysBeforeMonth(_, _)
DaysBeforeMonth(y, m) ==
    IF m = 1 THEN 0 ELSE DaysBeforeMonth(y, m - 1) + DaysInMonth(y, m - 1)

\* datetime.toordinal(): January 1 of year 1 is day 1.
ToOrdinal(dt) == DaysBeforeYear(dt[1]) + DaysBeforeMonth(dt[1], dt[2]) + dt[3]

RECURSIVE MonthOf(_, _, _)
MonthOf(y, m, n) ==
    IF n < DaysInMonth(y, m) THEN <<y, m, n + 1>> ELSE MonthOf(y, m + 1, n - DaysInMonth(y, m))

\* datetime.fromordinal(): the 400/100/4/1-year cycle decomposition.
FromOrdinal(ord) ==
    LET n    == ord - 1
        n400 == n \div 146097
        r400 == n % 146097
        n100 == r400 \div 36524
        r100 == r400 % 36524
        n4   == r100 \div 1461
        r4   == r100 % 1461
        n1   == r4 \div 365
        r1   == r4 % 365
        y    == n400 * 400 + n100 * 100 + n4 * 4 + n1 + 1
    IN  IF n1 = 4 \/ n100 = 4 THEN <<y - 1, 12, 31>> ELSE MonthOf(y, 1, r1)

\* date.weekday(): Monday is 0, Sunday is 6.
Weekday(dt) == (ToOrdinal(dt) + 6) % 7

\* date.timetuple().tm_yday: 1-based ordinal within the date's own year.
YearDay(dt) == DaysBeforeMonth(dt[1], dt[2]) + dt[3]

\* A range that stops the day before end.
DateRangeLenExclusive(start, end) ==
    IF ToOrdinal(end) < ToOrdinal(start) THEN 0 ELSE ToOrdinal(end) - ToOrdinal(start)

\* pd.date_range(start, end, freq='D'): both ends inclusive, one per day.
DateRangeLen(start, end) ==
    IF ToOrdinal(end) < ToOrdinal(start) THEN 0 ELSE ToOrdinal(end) - ToOrdinal(start) + 1
DateRangeAt(start, i) == FromOrdinal(ToOrdinal(start) + i - 1)

start_date(y) == <<y - 1, 6, 1>>
end_date(y) == <<y, 6, 1>>

(***************************************************************************)
(* src/simulation.py                                                       *)
(***************************************************************************)
\* Fixed-point cosine of 2*pi*t/365, in hundredths: with v the offset from
\* the nearest extremum in half-days, cos = (365^2 - 4v^2) / (365^2 + v^2).
Bhaskara(v) == (100 * (133225 - 4 * v * v)) \div (133225 + v * v)

CosCenti(t) ==
    LET u == (2 * Abs(t)) % 730
    IN  IF u <= 182 THEN Bhaskara(u)
        ELSE IF u <= 547 THEN -Bhaskara(u - 365)
        ELSE Bhaskara(730 - u)

seasonal_factor(doy) ==
    LET min_mult  == RInt(1)
        max_mult  == RInt(2)
        amplitude == RDiv(RSub(max_mult, min_mult), RInt(2))
        midpoint  == RDiv(RAdd(max_mult, min_mult), RInt(2))
    IN  RAdd(midpoint, RMul(amplitude, Rat(CosCenti(doy - 180), 100)))

\* The table keyed Sunday = 0 ... Saturday = 6.
DOW_FACTOR_SundayFirst ==
    [d \in 0..6 |->
        Rat(CASE d = 0 -> 18 [] d = 1 -> 17 [] d = 2 -> 19 [] d = 3 -> 15
              [] d = 4 -> 16 [] d = 5 -> 22 [] d = 6 -> 32, 100)]

\* DOW_FACTOR = {0: 0.17, 1: 0.19, 2: 0.15, 3: 0.16, 4: 0.22, 5: 0.32, 6: 0.18}
DOW_FACTOR ==
    [d \in 0..6 |->
        Rat(CASE d = 0 -> 17 [] d = 1 -> 19 [] d = 2 -> 15 [] d = 3 -> 16
              [] d = 4 -> 22 [] d = 5 -> 32 [] d = 6 -> 18, 100)]

hourly_occupancy_percent ==
    [h \in 0..23 |->
        CASE h = 6 -> 0   [] h = 7 -> 0   [] h = 8 -> 0   [] h = 9 -> 18
          [] h = 10 -> 57 [] h = 11 -> 29 [] h = 12 -> 34 [] h = 13 -> 41
          [] h = 14 -> 45 [] h = 15 -> 47 [] h = 16 -> 48 [] h = 17 -> 52
          [] h = 18 -> 58 [] h = 19 -> 63 [] h = 20 -> 70 [] h = 21 -> 73
          [] h = 22 -> 73 [] h = 23 -> 62 [] h = 0 -> 45  [] h = 1 -> 30
          [] h = 2 -> 15  [] h = 3 -> 0   [] h = 4 -> 0   [] h = 5 -> 0]

\* A walk in the order the table literal is written, 6, 7, ..., 23, 0, ..., 5.
HourRangeTableOrder == [i \in 1..24 |-> (i + 5) % 24]

\* range(24): the hours in the order the walk visits them.
HourRange == [i \in 1..24 |-> i - 1]

\* The occupancy with the capacity added instead of multiplied.
OccPeopleSum(cap, h, seasonal) ==
    RAdd(RInt(cap), RMul(Rat(hourly_occupancy_percent[h], 100), seasonal))

\* occ_percent = table.get(hour, 0) / 100.0; occ_people = capacity * occ_percent * seasonal_mult
OccPeople(cap, h, seasonal) ==
    RMul(RMul(RInt(cap), Rat(hourly_occupancy_percent[h], 100)), seasonal)

\* The accumulation without the clamp, and with the clamp's test reversed.
AccumulateNoClamp(guests, prev, occ) ==
    IF prev = None THEN guests ELSE RAdd(guests, RSub(occ, prev))

AccumulateNegative(guests, prev, occ) ==
    IF prev = None THEN guests
    ELSE IF RGt(prev, occ) THEN RAdd(guests, RSub(occ, prev)) ELSE guests

\* if prev_occ is not None: change = occ_people - prev_occ; if change > 0: daily_guests += change
Accumulate(guests, prev, occ) ==
    IF prev = None THEN guests
    ELSE IF RGt(occ, prev) THEN RAdd(guests, RSub(occ, prev)) ELSE guests

ValidCategories == {"light", "heavy"}

\* The same loop adding each drink's liters to the other category's sum.
RECURSIVE CalcLitersSwapped(_, _, _, _)
CalcLitersSwapped(guests, drinks, i, acc) ==
    IF i > Len(drinks)
    THEN [error |-> NoError, light_liters |-> acc.light, heavy_liters |-> acc.heavy]
    ELSE LET info   == drinks[i]
             liters == RMul(RMul(RMul(guests, info.share), info.avg_drinks), info.volume)
         IN  IF info.category \notin ValidCategories
             THEN [error |-> "KeyError", light_liters |-> acc.light, heavy_liters |-> acc.heavy]
             ELSE IF info.category = "light"
             THEN CalcLitersSwapped(guests, drinks, i + 1, [acc EXCEPT !.heavy = RAdd(@, liters)])
             ELSE CalcLitersSwapped(guests, drinks, i + 1, [acc EXCEPT !.light = RAdd(@, liters)])

\* The loop of calc_liters_by_category from its i-th drink on; a category that
\* is no key of liters_sum_by_category raises KeyError at that drink (error).
RECURSIVE CalcLitersFrom(_, _, _, _)
CalcLitersFrom(guests, drinks, i, acc) ==
    IF i > Len(drinks)
    THEN [error |-> NoError, light_liters |-> acc.light, heavy_liters |-> acc.heavy]
    ELSE LET info         == drinks[i]
             drink_guests == RMul(guests, info.share)
             ndrinks      == RMul(drink_guests, info.avg_drinks)
             liters       == RMul(ndrinks, info.volume)
         IN  IF info.category \notin ValidCategories
             THEN [error |-> "KeyError", light_liters |-> acc.light, heavy_liters |-> acc.heavy]
             ELSE IF info.category = "light"
             THEN CalcLitersFrom(guests, drinks, i + 1, [acc EXCEPT !.light = RAdd(@, liters)])
             ELSE CalcLitersFrom(guests, drinks, i + 1, [acc EXCEPT !.heavy = RAdd(@, liters)])

calc_liters_swapped(guests, drinks) ==
    CalcLitersSwapped(guests, drinks, 1, [light |-> Zero, heavy |-> Zero])

calc_liters_by_category(guests, drinks) ==
    CalcLitersFrom(guests, drinks, 1, [light |-> Zero, heavy |-> Zero])

\* sum(daily_guests * info['avg_drinks'] * info['share'] for info in drink_types.values())
RECURSIVE TotalDrinks(_, _, _)
TotalDrinks(guests, drinks, i) ==
    IF i > Len(drinks) THEN Zero
    ELSE RAdd(RMul(RMul(guests, drinks[i].avg_drinks), drinks[i].share),
              TotalDrinks(guests, drinks, i + 1))

(***************************************************************************)
(* Inputs of simulate_flow_based.  drink_types is a dict; the model keeps  *)
(* its items in insertion order as a sequence of                           *)
(* [drink, category, avg_drinks, volume, share].                           *)
(***************************************************************************)
Drink(name, cat, avg, vol, share) ==
    [drink |-> name, category |-> cat, avg_drinks |-> avg, volume |-> vol, share |-> share]

UnitMenu == << Drink("unit", "light", RInt(1), RInt(1), RInt(1)) >>

\* default_drinks_df of src/app.py (its shares already sum to 1)
DefaultMenu ==
    << Drink("beer", "light", Rat(5, 2), Rat(1, 2), Rat(2, 5)),
       Drink("wine", "light", RInt(2), Rat(3, 20), Rat(3, 10)),
       Drink("cocktail", "heavy", RInt(2), Rat(1, 5), Rat(1, 5)),
       Drink("raki", "heavy", RInt(1), Rat(1, 10), Rat(1, 10)) >>

ZeroShareMenu ==
    << Drink("beer", "light", Rat(5, 2), Rat(1, 2), Zero),
       Drink("cocktail", "heavy", RInt(2), Rat(1, 5), Zero) >>

BadCategoryMenu ==
    << Drink("beer", "light", Rat(5, 2), Rat(1, 2), Rat(1, 2)),
       Drink("cider", "medium", RInt(2), Rat(1, 3), Rat(1, 2)) >>

DrinkMenus == {UnitMenu, DefaultMenu, ZeroShareMenu, BadCategoryMenu}

VARIABLES
    capacity, year, drink_types,        \* arguments of simulate_flow_based
    pc,                                 \* position in simulate_flow_based
    idx, date,                          \* for date in date_range
    day_of_year, dow, seasonal_mult, dow_mult,
    hpos, hour, prev_occ, daily_guests, \* for hour in range(24)
    records,
    exc                                 \* the exception the call raised, or NoError

VARIABLES
    rows,                               \* the data_editor's table, as edited
    app_year, app_capacity,             \* the sidebar's number inputs
    can_run,                            \* st.session_state['can_run']
    app_pc,                             \* "idle" between script runs, "calling" inside simulate
    call,                               \* the arguments of the call in progress, or None
    has_results                         \* 'simulation_results_df' in st.session_state

appvars == << rows, app_year, app_capacity, can_run, app_pc, call, has_results >>

simvars == << capacity, year, drink_types, pc, idx, date, day_of_year, dow,
              seasonal_mult, dow_mult, hpos, hour, prev_occ, daily_guests,
              records, exc >>

vars == << simvars, appvars >>

NumDates == DateRangeLen(start_date(year), end_date(year))

SimInit ==
    /\ capacity \in Capacities
    /\ year \in Years
    /\ drink_types \in DrinkMenus
    /\ pc = "start"
    /\ idx = 0
    /\ date = None
    /\ day_of_year = None
    /\ dow = None
    /\ seasonal_mult = None
    /\ dow_mult = None
    /\ hpos = 0
    /\ hour = None
    /\ prev_occ = None
    /\ daily_guests = None
    /\ records = << >>
    /\ exc = NoError

\* lines 35-46: the date axis, the two tables, records = []
Begin ==
    /\ pc = "start"
    /\ records' = << >>
    /\ pc' = "for_date"
    /\ UNCHANGED << capacity, year, drink_types, idx, date, day_of_year, dow,
                    seasonal_mult, dow_mult, hpos, hour, prev_occ, daily_guests, exc >>
    /\ UNCHANGED appvars

\* lines 48-55: the next date of date_range and its multipliers
NextDate ==
    /\ pc = "for_date"
    /\ idx < NumDates
    /\ LET d == DateRangeAt(start_date(year), idx + 1) IN
        /\ idx' = idx + 1
        /\ date' = d
        /\ day_of_year' = YearDay(d)
        /\ dow' = Weekday(d)
        /\ seasonal_mult' = seasonal_factor(YearDay(d))
        /\ dow_mult' = DOW_FACTOR[Weekday(d)]
    /\ prev_occ' = None
    /\ daily_guests' = Zero
    /\ hpos' = 0
    /\ pc' = "for_hour"
    /\ UNCHANGED << capacity, year, drink_types, hour, records, exc >>
    /\ UNCHANGED appvars

\* lines 56-63: one iteration of the hour loop
HourStep ==
    /\ pc = "for_hour"
    /\ hpos < 24
    /\ LET h   == HourRange[hpos + 1]
           occ == OccPeople(capacity, h, seasonal_mult)
       IN  /\ hour' = h
           /\ daily_guests' = Accumulate(daily_guests, prev_occ, occ)
           /\ prev_occ' = occ
    /\ hpos' = hpos + 1
    /\ UNCHANGED << capacity, year, drink_types, pc, idx, date, day_of_year, dow,
                    seasonal_mult, dow_mult, records, exc >>
    /\ UNCHANGED appvars

\* lines 64-77: scale by the weekday, compute the demand, append the record;
\* a KeyError of calc_liters_by_category leaves the function at line 66.
DayEnd ==
    /\ pc = "for_hour"
    /\ hpos = 24
    /\ LET guests == RMul(daily_guests, dow_mult)
           liters == calc_liters_by_category(guests, drink_types)
       IN  /\ daily_guests' = guests
           /\ IF liters.error # NoError
              THEN /\ exc' = "KeyError"
                   /\ pc' = "raised"
                   /\ UNCHANGED records
              ELSE /\ records' = Append(records,
                        [date         |-> date,
                         guests       |-> guests,
                         drinks       |-> TotalDrinks(guests, drink_types, 1),
                         light_liters |-> liters.light_liters,
                         heavy_liters |-> liters.heavy_liters,
                         total_liters |-> RAdd(liters.light_liters, liters.heavy_liters)])
                   /\ pc' = "for_date"
                   /\ UNCHANGED exc
    /\ UNCHANGED << capacity, year, drink_types, idx, date, day_of_year, dow,
                    seasonal_mult, dow_mult, hpos, hour, prev_occ >>
    /\ UNCHANGED appvars

\* line 78: date_range is exhausted, the records are returned
Return ==
    /\ pc = "for_date"
    /\ idx >= NumDates
    /\ pc' = "done"
    /\ UNCHANGED << capacity, year, drink_types, idx, date, day_of_year, dow,
                    seasonal_mult, dow_mult, hpos, hour, prev_occ, daily_guests,
                    records, exc >>
    /\ UNCHANGED appvars

SimNext == Begin \/ NextDate \/ HourStep \/ DayEnd \/ Return

(***************************************************************************)
(* src/app.py.  Streamlit runs the whole script again after every widget   *)
(* interaction; an action below is one interaction together with the       *)
(* script run it triggers.  A row a user adds to the table starts with     *)
(* empty (None / NaN) cells.                                               *)
(***************************************************************************)
MaxRows == 4
DefaultYear == 2025
DefaultCapacity == 100

ShareChoices == {Zero, Rat(1, 2)}
NameChoices == {"beer"}
SidebarYears == Years
SidebarCapacities == {1, DefaultCapacity}

\* None in a text cell
NoText == "None"
EmptyRow == Drink(NoText, NoText, None, None, None)

\* edited_df['share'].sum(): pandas skips NaN
RECURSIVE TotalShare(_, _)
TotalShare(rs, i) ==
    IF i > Len(rs) THEN Zero
    ELSE IF rs[i].share = None THEN TotalShare(rs, i + 1)
    ELSE RAdd(rs[i].share, TotalShare(rs, i + 1))

\* edited_df['share'] = edited_df['share'] / total_share (NaN stays NaN)
Normalise(rs, total) ==
    [i \in 1..Len(rs) |->
        [rs[i] EXCEPT !.share = IF @ = None THEN None ELSE RDiv(@, total)]]

\* {row['drink']: row[1:].to_dict() for index, row in edited_df.iterrows()}:
\* a later row with the same drink replaces the earlier row's value and
\* keeps the key's place.
RECURSIVE ToDict(_, _, _)
ToDict(rs, i, acc) ==
    IF i > Len(rs) THEN acc
    ELSE LET same == {k \in 1..Len(acc) : acc[k].drink = rs[i].drink}
         IN  IF same = {}
             THEN ToDict(rs, i + 1, Append(acc, rs[i]))
             ELSE ToDict(rs, i + 1, [k \in 1..Len(acc) |-> IF k \in same THEN rs[i] ELSE acc[k]])

\* lines 53-59: session_state['can_run'] as the script run leaves it
CanRun(rs) == TotalShare(rs, 1) # Zero

AppStart ==
    /\ rows = DefaultMenu
    /\ app_year = DefaultYear
    /\ app_capacity = DefaultCapacity
    /\ can_run = CanRun(DefaultMenu)
    /\ app_pc = "idle"
    /\ call = None
    /\ has_results = FALSE

\* The engine while nobody has called it.
SimIdle ==
    /\ capacity = 0 /\ year = DefaultYear /\ drink_types = << >>
    /\ pc = "idle" /\ idx = 0 /\ date = None /\ day_of_year = None /\ dow = None
    /\ seasonal_mult = None /\ dow_mult = None /\ hpos = 0 /\ hour = None
    /\ prev_occ = None /\ daily_guests = None /\ records = << >> /\ exc = NoError

\* A script run in which the button was not pressed: lines 53-59 only.
Rerun(rs) ==
    /\ rows' = rs
    /\ can_run' = CanRun(rs)
    /\ UNCHANGED << app_pc, call, has_results >>
    /\ UNCHANGED simvars

EditShare ==
    /\ app_pc = "idle"
    /\ \E i \in 1..Len(rows), v \in ShareChoices :
        Rerun([rows EXCEPT ![i].share = v])
    /\ UNCHANGED << app_year, app_capacity >>

EditDrink ==
    /\ app_pc = "idle"
    /\ \E i \in 1..Len(rows), n \in NameChoices :
        Rerun([rows EXCEPT ![i].drink = n])
    /\ UNCHANGED << app_year, app_capacity >>

AddRow ==
    /\ app_pc = "idle"
    /\ Len(rows) < MaxRows
    /\ Rerun(Append(rows, EmptyRow))
    /\ UNCHANGED << app_year, app_capacity >>

DeleteRow ==
    /\ app_pc = "idle"
    /\ \E i \in 1..Len(rows) :
        Rerun(SubSeq(rows, 1, i - 1) \o SubSeq(rows, i + 1, Len(rows)))
    /\ UNCHANGED << app_year, app_capacity >>

SetYear ==
    /\ app_pc = "idle"
    /\ \E y \in SidebarYears : app_year' = y
    /\ Rerun(rows)
    /\ UNCHANGED app_capacity

SetCapacity ==
    /\ app_pc = "idle"
    /\ \E c \in SidebarCapacities : app_capacity' = c
    /\ Rerun(rows)
    /\ UNCHANGED app_year

\* The user presses Run Simulation, which the last script run rendered with
\* disabled = not can_run.  Lines 53-67 of the script run that follows.
ClickRun ==
    /\ app_pc = "idle"
    /\ can_run
    /\ LET total_share == TotalShare(rows, 1) IN
        IF total_share = Zero
        THEN /\ can_run' = FALSE
             /\ UNCHANGED << app_pc, call >>
        ELSE /\ can_run' = TRUE
             /\ call' = [capacity    |-> app_capacity,
                         year        |-> app_year,
                         drink_types |-> ToDict(Normalise(rows, total_share), 1, << >>)]
             /\ app_pc' = "calling"
    /\ UNCHANGED << rows, app_year, app_capacity, has_results >>
    /\ UNCHANGED simvars

\* simulate_flow_based returns and lines 70-71 store the result, or it raises
\* KeyError and the script run ends there.
SimReturn ==
    /\ app_pc = "calling"
    /\ has_results' =
        IF \A i \in 1..Len(call.drink_types) :
                call.drink_types[i].category \in ValidCategories
        THEN TRUE ELSE has_results
    /\ call' = None
    /\ app_pc' = "idle"
    /\ UNCHANGED << rows, app_year, app_capacity, can_run >>
    /\ UNCHANGED simvars

AppNext ==
    EditShare \/ EditDrink \/ AddRow \/ DeleteRow \/ SetYear \/ SetCapacity
        \/ ClickRun \/ SimReturn

Init == SimInit /\ AppStart
Next == SimNext
Spec == Init /\ [][Next]_vars

AppInit == SimIdle /\ AppStart
AppSpec == AppInit /\ [][AppNext]_vars

\* sum of the shares of a drink_types mapping; None when a share is NaN
RECURSIVE ShareSum(_, _)
ShareSum(ds, i) ==
    IF i > Len(ds) THEN Zero
    ELSE IF ds[i].share = None \/ ShareSum(ds, i + 1) = None THEN None
    ELSE RAdd(ds[i].share, ShareSum(ds, i + 1))

\* C7: simulate is called only when the total of the edited shares is
\* non-zero, with shares that sum to 1; while the total is zero the Run button
\* is disabled and no call is made.
C7_CallOnlyNormalised ==
    /\ app_pc = "calling" =>
        /\ TotalShare(rows, 1) # Zero
        /\ ShareSum(call.drink_types, 1) = One
    /\ TotalShare(rows, 1) = Zero => (~can_run /\ app_pc = "idle")

(***************************************************************************)
(* Reference notions the properties are stated with.  They are written     *)
(* from the calendar's rules, not from the ordinal arithmetic above.       *)
(***************************************************************************)
\* The calendar day after dt.
NextDay(dt) ==
    IF dt[3] < DaysInMonth(dt[1], dt[2]) THEN <<dt[1], dt[2], dt[3] + 1>>
    ELSE IF dt[2] < 12 THEN <<dt[1], dt[2] + 1, 1>>
    ELSE <<dt[1] + 1, 1, 1>>

\* Strict chronological order of two dates.
Before(a, b) ==
    \/ a[1] < b[1]
    \/ a[1] = b[1] /\ a[2] < b[2]
    \/ a[1] = b[1] /\ a[2] = b[2] /\ a[3] < b[3]

\* Zeller's congruence, turned to Monday = 0 ... Sunday = 6.
ZellerWeekday(dt) ==
    LET m == IF dt[2] < 3 THEN dt[2] + 12 ELSE dt[2]
        y == IF dt[2] < 3 THEN dt[1] - 1 ELSE dt[1]
        k == y % 100
        j == y \div 100
        z == (dt[3] + (13 * (m + 1)) \div 5 + k + k \div 4 + j \div 4 + 5 * j) % 7
    IN  (z + 5) % 7

\* The multipliers Monday ... Sunday as the specification lists them, in hundredths.
SpecDowCenti == <<17, 19, 15, 16, 22, 32, 18>>

\* The number of calendar days of dt's year up to and including dt.
CountedYearDay(dt) ==
    Cardinality({md \in (1..12) \X (1..31) :
        /\ md[2] <= DaysInMonth(dt[1], md[1])
        /\ (md[1] < dt[2] \/ (md[1] = dt[2] /\ md[2] <= dt[3]))})

CategoriesValid == \A i \in 1..Len(drink_types) : drink_types[i].category \in ValidCategories
AllSharesZero == drink_types # << >> /\ \A i \in 1..Len(drink_types) : drink_types[i].share = Zero
HasRecords == Len(records) > 0

AllZero(r) ==
    /\ r.guests = Zero /\ r.drinks = Zero /\ r.light_liters = Zero
    /\ r.heavy_liters = Zero /\ r.total_liters = Zero

NonNegative(r) ==
    /\ r.guests[1] >= 0 /\ r.drinks[1] >= 0 /\ r.light_liters[1] >= 0
    /\ r.heavy_liters[1] >= 0 /\ r.total_liters[1] >= 0

\* C1: the result holds exactly one record per calendar day from June 1 of
\* year-1 to June 1 of year inclusive, consecutive days in increasing order
\* (no gap, no duplicate), 367 records when the window contains February 29
\* (year is a leap year) and 366 otherwise.
C1_OneRecordPerDay ==
    /\ HasRecords =>
        /\ records[1].date = <<year - 1, 6, 1>>
        /\ Len(records) >= 2 =>
            /\ records[Len(records)].date = NextDay(records[Len(records) - 1].date)
            /\ Before(records[Len(records) - 1].date, records[Len(records)].date)
        /\ Len(records) <= 367
    /\ pc = "done" =>
        /\ Len(records) = IF IsLeap(year) THEN 367 ELSE 366
        /\ records[Len(records)].date = <<year, 6, 1>>
        /\ \A i \in 1..(Len(records) - 1) :
            /\ records[i + 1].date = NextDay(records[i].date)
            /\ Before(records[i].date, records[i + 1].date)

C1_Witness ==
    /\ pc = "done" /\ IsLeap(year) /\ Len(records) = 367
    /\ records[274].date = <<year, 2, 29>>

\* C2: a call whose drink_types has every share 0 raises before any record
\* is produced and never returns a table.
C2_ZeroSharesRaise ==
    AllSharesZero => /\ pc # "done"
                     /\ ~HasRecords

\* C3: a category outside {light, heavy} is detected before the per-day loop
\* begins: no day is ever processed and no record produced.
C3_BadCategoryFailsBeforeLoop ==
    ~CategoriesValid => /\ idx = 0
                        /\ pc # "for_hour"
                        /\ ~HasRecords

\* C4: with capacity 0 every record has guests, drinks, light_liters,
\* heavy_liters and total_liters equal to 0, and the run returns the full window.
C4_ZeroCapacityAllZero ==
    (capacity = 0 /\ CategoriesValid) =>
        /\ pc # "raised"
        /\ HasRecords => AllZero(records[Len(records)])
        /\ pc = "done" =>
            /\ Len(records) = NumDates
            /\ \A i \in 1..Len(records) : AllZero(records[i])

C4_Witness ==
    /\ pc = "done" /\ capacity = 0 /\ drink_types = DefaultMenu
    /\ Len(records) >= 366 /\ AllZero(records[1])

\* C5: on valid inputs every record has guests, drinks, light_liters,
\* heavy_liters and total_liters >= 0, and the running sum of clamped deltas
\* is never negative.
C5_NonNegative ==
    /\ (pc = "for_hour" => daily_guests[1] >= 0)
    /\ HasRecords => NonNegative(records[Len(records)])
    /\ pc = "done" => \A i \in 1..Len(records) : NonNegative(records[i])

C5_Witness ==
    /\ pc = "done" /\ capacity > 0 /\ drink_types = DefaultMenu
    /\ records[1].guests[1] > 0 /\ records[1].heavy_liters[1] > 0

SingleLight(r) ==
    /\ r.light_liters = r.guests /\ r.heavy_liters = Zero
    /\ r.drinks = r.guests /\ r.total_liters = r.guests

\* C6: with the single drink light / share 1 / avg_drinks 1 / volume 1 every
\* record has light_liters = guests, heavy_liters = 0, drinks = guests and
\* total_liters = guests.
C6_SingleDrink ==
    drink_types = UnitMenu =>
        /\ HasRecords => SingleLight(records[Len(records)])
        /\ pc = "done" => \A i \in 1..Len(records) : SingleLight(records[i])

C6_Witness ==
    /\ pc = "done" /\ drink_types = UnitMenu /\ capacity > 0
    /\ records[1].guests[1] > 0 /\ records[1].light_liters = records[1].guests

\* The hour the walk is about to process.
AtHour(h) == pc = "for_hour" /\ hpos < 24 /\ HourRange[hpos + 1] = h

\* C8 as claimed: within one day's pass hour 0 follows hour 23, so when the
\* walk processes hour 0 its predecessor is the occupancy of hour 23.
C8_HourZeroFollows23 ==
    AtHour(0) => prev_occ = OccPeople(capacity, 23, seasonal_mult)

\* C8 amended: each day's walk visits the hours in numerical order 0, 1, ..., 23;
\* hour 0 is the first hour of the walk, has no predecessor and contributes 0;
\* the deltas computed (and clamped at 0) are those from hour h-1 to hour h for
\* h = 1..23, so the delta from hour 23 to hour 0 is never computed.
C8_WalkStartsAtHourZero ==
    /\ AtHour(0) => (hpos = 0 /\ prev_occ = None /\ daily_guests = Zero)
    /\ \A h \in 1..23 :
        AtHour(h) => /\ prev_occ = OccPeople(capacity, h - 1, seasonal_mult)
                     /\ hour = h - 1
    /\ (pc = "for_hour" /\ hpos = 1) => (hour = 0 /\ daily_guests = Zero)
    /\ (pc = "for_hour" /\ hpos = 24) => hour = 23

C8_Witness ==
    /\ pc = "for_hour" /\ hpos = 24 /\ hour = 23 /\ capacity > 0
    /\ prev_occ = OccPeople(capacity, 23, seasonal_mult)
    /\ daily_guests[1] > 0

\* C9: the day-of-week multiplier applied to a date is the one listed for the
\* date's Gregorian weekday, and day_of_year is the date's 1-based ordinal in
\* its own calendar year: 1 exactly on January 1, and 366 only on December 31
\* of a leap year.
C9_WeekdayAndYearDay ==
    pc = "for_hour" =>
        /\ dow = ZellerWeekday(date)
        /\ dow_mult = Rat(SpecDowCenti[ZellerWeekday(date) + 1], 100)
        /\ day_of_year \in 1..366
        /\ (day_of_year = 1) <=> (date[2] = 1 /\ date[3] = 1)
        /\ (day_of_year = 366) => (date[2] = 12 /\ date[3] = 31 /\ IsLeap(date[1]))
        /\ hpos = 0 => day_of_year = CountedYearDay(date)

C9_Witness ==
    /\ pc = "for_hour" /\ date = <<2024, 12, 31>> /\ day_of_year = 366
    /\ dow = 1 /\ dow_mult = Rat(19, 100)

Percent101 == Rat(101, 100)

\* C10: the positive hour-to-hour deltas of one day's walk sum to 101 percent
\* of capacity x seasonal_mult, so every record has
\* guests = capacity x seasonal_mult x dow_mult x 101/100; the hour 23 -> hour 0
\* delta is negative or zero, so including it would add nothing.
C10_Guests101Percent ==
    /\ (pc = "for_hour" /\ hpos = 24) =>
        /\ daily_guests = RMul(RMul(RInt(capacity), seasonal_mult), Percent101)
        /\ ~RGt(OccPeople(capacity, 0, seasonal_mult), prev_occ)
    /\ (pc = "for_date" /\ idx >= 1) =>
        /\ records[idx].guests =
              RMul(RMul(RMul(RInt(capacity), seasonal_mult), dow_mult), Percent101)
    /\ pc = "done" =>
        \A i \in 1..Len(records) :
            records[i].guests =
                RMul(RMul(RMul(RInt(capacity), seasonal_factor(CountedYearDay(records[i].date))),
                          Rat(SpecDowCenti[ZellerWeekday(records[i].date) + 1], 100)),
                     Percent101)

C10_Witness ==
    /\ pc = "for_date" /\ idx = 2 /\ capacity > 0
    /\ records[2].guests = RMul(RMul(RMul(RInt(capacity), seasonal_mult), dow_mult), Percent101)
    /\ records[2].guests[1] > 0
====
